---- MODULE Spec2Model ----
(***************************************************************************)
(* Standard Bloom filter of sketches/src/filters/bloom/standard.rs with    *)
(* the Hasher64 abstraction of sketches/src/hashing/traits.rs.             *)
(*                                                                         *)
(* One behaviour of Spec follows one filter value: the call of            *)
(* BloomFilter::new, then any sequence of insert, contains and accessor    *)
(* calls on it.  SpecSizing applies the sizing functions on their own,     *)
(* SpecHash follows the hashers of sketches/src/hashing and SpecDataset    *)
(* the dataset generators of sketches/src/benchmarks/datasets.rs.          *)
(* SpecOrder follows two filters built from the same arguments, as         *)
(* tests/filters/bloom_edge_cases.rs builds them, and SpecPositions the    *)
(* positions hash_positions computes when m is a 64-bit usize.             *)
(*                                                                         *)
(* Numbers.  A u64 digest is a tuple of 8 bytes and a u32 a tuple of 4     *)
(* bytes, least significant byte first, so that the truncating cast and    *)
(* the wrapping u32 arithmetic of hash_positions keep their width.  f64    *)
(* values are fixed-point numbers scaled by Scale; the non-finite values   *)
(* (NaN, -inf, +inf) are handled as the IEEE operations and Rust's         *)
(* saturating float-to-usize cast handle them.                             *)
(***************************************************************************)
EXTENDS Integers, Sequences, FiniteSets, TLC

VARIABLES
    status,     \* "uninit" | "ok" | "panicked" | "alloc_failed"
    bit_array,  \* BloomFilter.bit_array: [0..m-1 -> BOOLEAN]
    m,          \* BloomFilter.m
    k,          \* BloomFilter.k
    n,          \* BloomFilter.n
    f,          \* BloomFilter.f
    count,      \* BloomFilter.count
    hashes,     \* hashes[item][seed]: H::hash_with_seed(to_bytes(item), seed)
    ctor,       \* history: the arguments BloomFilter::new was called with
    inserted,   \* history: the set of items passed to insert so far
    calls,      \* history: the number of insert calls so far
    ret,        \* the last call: [op, arg, val]
    hashers,    \* the Hasher64 instances built so far, by slot
    digests,    \* history: the hash calls made on them, in call order
    ds,         \* a Dataset::uniform or Dataset::zipfian call in progress
    twin        \* a second filter of the same test, and both insertion orders

vars == <<status, bit_array, m, k, n, f, count, hashes, ctor, inserted, calls, ret,
          hashers, digests, ds, twin>>

hasher_vars == <<hashers, digests>>

filter == <<bit_array, m, k, n, f, count>>

----------------------------------------------------------------------------
(* Bounds of the model. *)

MaxCapacity == 2
NumItems == 2
MaxInserts == 3

Items == 1 .. NumItems
Capacities == 0 .. MaxCapacity

(* The false-positive rates the constructor is called with: three inside  *)
(* (0, 1) and one for each way of being outside it.                       *)
ValidFpr == {"0.5", "0.01", "0.99999"}
InvalidFpr == {"0.0", "1.0", "2.0", "-1.0", "NaN"}
FprValues == ValidFpr \cup InvalidFpr

(* The sizing of the filter property tests: new(100, 0.01). *)
TestCapacity == 100
ConstructorInputs == (Capacities \X FprValues) \cup {<<TestCapacity, "0.01">>}

(* The seeds hash_positions passes to hash_with_seed. *)
Seeds == {0, 1}

(* 64-bit digests, least significant byte first. *)
Zero64 == <<0, 0, 0, 0, 0, 0, 0, 0>>
DigestOne == <<1, 0, 0, 0, 0, 0, 0, 0>>                        \* 0x0000000000000001
DigestMax == <<255, 255, 255, 255, 255, 255, 255, 255>>        \* 0xFFFFFFFFFFFFFFFF
DigestHigh == <<0, 0, 0, 0, 1, 0, 0, 0>>                       \* 0x0000000100000000
DigestMixed == <<240, 222, 188, 154, 120, 86, 52, 18>>         \* 0x123456789ABCDEF0

(* The digests of one item under seed 0 and seed 1.  An item's digests    *)
(* are one of: a sum and a product that both overflow 32 bits; two        *)
(* digests whose low halves are 0; a second digest of -1 modulo 2^32.     *)
DigestPairs ==
    { [s \in Seeds |-> IF s = 0 THEN DigestMax ELSE DigestMixed],
      [s \in Seeds |-> DigestHigh],
      [s \in Seeds |-> IF s = 0 THEN DigestOne ELSE DigestMax] }

----------------------------------------------------------------------------
(* f64 arithmetic of calculate_m and calculate_k. *)

Scale == 100000

(* 2f64.ln() and 2f64.ln().powi(2), scaled. *)
Ln2Scaled == 69315
Ln2SqScaled == 48045

(* f.ln(): "nan" for NaN and negative f, "ninf" for f = 0, else finite. *)
LnClass(fpr) ==
    CASE fpr \in {"NaN", "-1.0"} -> "nan"
      [] fpr = "0.0" -> "ninf"
      [] OTHER -> "fin"

(* f.ln() scaled, for the f whose logarithm is finite. *)
LnScaled(fpr) ==
    CASE fpr = "0.5" -> -69315
      [] fpr = "0.01" -> -460517
      [] fpr = "0.99999" -> -1
      [] fpr = "1.0" -> 0
      [] fpr = "2.0" -> 69315

(* (a / b).ceil() for a > 0, b > 0. *)
CeilDiv(a, b) == (a + b - 1) \div b

(* calculate_m yields +inf, which `as usize` saturates to usize::MAX. *)
calculate_m_saturates(cap, fpr) == cap > 0 /\ LnClass(fpr) = "ninf"

(* Variant of calculate_m: floor() in place of ceil(). *)
calculate_m_floor(cap, fpr) ==
    IF LnClass(fpr) # "fin"
    THEN 0
    ELSE LET x == -(cap * LnScaled(fpr))
         IN  IF x <= 0 THEN 0 ELSE x \div Ln2SqScaled

(* (-(n as f64) * f.ln() / (2f64.ln().powi(2))).ceil() as usize, when it  *)
(* does not saturate: NaN, -0.0 and negative values cast to 0.            *)
calculate_m(cap, fpr) ==
    IF LnClass(fpr) # "fin"
    THEN 0
    ELSE LET x == -(cap * LnScaled(fpr))
         IN  IF x <= 0 THEN 0 ELSE CeilDiv(x, Ln2SqScaled)

(* Variant of calculate_k: the result is clamped to at least 1. *)
(* calculate_k with the ratio rounded down. *)
calculate_k_floor(bits, cap) == (bits * Ln2Scaled) \div (cap * Scale)

calculate_k_at_least_one(bits, cap) ==
    IF bits = 0 THEN 1 ELSE CeilDiv(bits * Ln2Scaled, cap * Scale)

(* ((m as f64 / n as f64) * 2f64.ln()).ceil() as usize; 0/0 is NaN and    *)
(* casts to 0.                                                            *)
calculate_k(bits, cap) ==
    IF bits = 0 THEN 0 ELSE CeilDiv(bits * Ln2Scaled, cap * Scale)

----------------------------------------------------------------------------
(* u32 arithmetic of hash_positions. *)

(* digest as u32 *)
(* The cast keeping the high half of the digest. *)
AsU32_high(d) == <<d[5], d[6], d[7], d[8]>>

AsU32(d) == <<d[1], d[2], d[3], d[4]>>

(* i as u32, for a usize i *)
UsizeAsU32(i) ==
    <<i % 256, (i \div 256) % 256, (i \div 65536) % 256, (i \div 16777216) % 256>>

(* a.wrapping_mul(b) on u32 *)
wrapping_mul(a, b) ==
    LET c1 == a[1] * b[1]
        c2 == a[1] * b[2] + a[2] * b[1] + (c1 \div 256)
        c3 == a[1] * b[3] + a[2] * b[2] + a[3] * b[1] + (c2 \div 256)
        c4 == a[1] * b[4] + a[2] * b[3] + a[3] * b[2] + a[4] * b[1] + (c3 \div 256)
    IN  <<c1 % 256, c2 % 256, c3 % 256, c4 % 256>>

(* Variant of wrapping_add: a.saturating_add(b), the sum stops at         *)
(* u32::MAX.                                                              *)
wrapping_add_saturating(a, b) ==
    IF (((a[1] + b[1]) \div 256 + a[2] + b[2]) \div 256 + a[3] + b[3]) \div 256
            + a[4] + b[4] > 255
    THEN <<255, 255, 255, 255>>
    ELSE <<(a[1] + b[1]) % 256,
           ((a[1] + b[1]) \div 256 + a[2] + b[2]) % 256,
           (((a[1] + b[1]) \div 256 + a[2] + b[2]) \div 256 + a[3] + b[3]) % 256,
           ((((a[1] + b[1]) \div 256 + a[2] + b[2]) \div 256 + a[3] + b[3]) \div 256
                + a[4] + b[4]) % 256>>

(* a.wrapping_add(b) on u32 *)
wrapping_add(a, b) ==
    LET c1 == a[1] + b[1]
        c2 == a[2] + b[2] + (c1 \div 256)
        c3 == a[3] + b[3] + (c2 \div 256)
        c4 == a[4] + b[4] + (c3 \div 256)
    IN  <<c1 % 256, c2 % 256, c3 % 256, c4 % 256>>

(* (c as usize) % modulus for a u32 c and modulus > 0, by Horner's rule. *)
U32Mod(c, modulus) ==
    ((((((c[4] % modulus) * 256 + c[3]) % modulus) * 256 + c[2]) % modulus) * 256 + c[1])
        % modulus

----------------------------------------------------------------------------
(* The filter. *)

(* Variant of hash_with_seed: the digests depend on how many items the     *)
(* filter has counted, as with keys drawn anew for each call.              *)
hash_with_seed_keyed_by_count(item, seed) == hashes[item][(seed + count) % 2]

(* H::hash_with_seed(&self.to_bytes(item), seed): to_bytes and the hasher *)
(* are deterministic functions of the item's content, fixed at Init.      *)
hash_with_seed(item, seed) == hashes[item][seed]

(* The remainder in hash_positions divides by zero. *)
hash_positions_panics == k > 0 /\ m = 0

(* The k positions of an item, in iteration order (index i + 1 holds      *)
(* iteration i).  position(i) is                                          *)
(*   (hash1.wrapping_add((i as u32).wrapping_mul(hash2)) as usize) % m    *)
(* with hash1, hash2, i as u32, the product and the sum each bound to    *)
(* its value once.                                                        *)
hash_positions(item) ==
    CHOOSE positions \in
        { [j \in 1 .. k |->
              CHOOSE pos \in
                  { U32Mod(combined, m) :
                      combined \in { wrapping_add(hash1, product) :
                          product \in { wrapping_mul(i, hash2) :
                              i \in { UsizeAsU32(j - 1) } } } } : TRUE] :
            hash1 \in { AsU32(hash_with_seed(item, 0)) },
            hash2 \in { AsU32(hash_with_seed(item, 1)) } } : TRUE

(* The positions hash_positions yields, as a set. *)
hash_position_set(item) ==
    LET positions == hash_positions(item)
    IN  {positions[j] : j \in 1 .. k}

(* No Hasher64 instance has been built. *)
HasherSlots == {1, 2}
NoHasher == [kind |-> "none"]
NoHashers == [slot \in HasherSlots |-> NoHasher]

(* No dataset generator has been called. *)
NoDataset == [pc |-> "idle"]

(* No second filter has been declared: the filter not receiving calls is  *)
(* unbuilt and neither filter has had an insert.                          *)
NoTwin ==
    [order |-> <<>>,
     other |-> [status |-> "uninit", bit_array |-> <<>>, m |-> 0, k |-> 0, n |-> 0,
                f |-> "none", count |-> 0,
                ctor |-> [capacity |-> 0, fpr |-> "none"],
                inserted |-> {}, calls |-> 0,
                ret |-> [op |-> "none", arg |-> "none", val |-> "none"]],
     other_order |-> <<>>]

(* from_elem with every element set. *)
from_elem_all_set(bits, value) == [p \in 0 .. bits - 1 |-> TRUE]

(* from_elem with one element too many. *)
from_elem_extra_bit(bits, value) == [p \in 0 .. bits |-> value]

(* BitVec::from_elem(m, false) *)
from_elem(bits, value) == [p \in 0 .. bits - 1 |-> value]

Init ==
    /\ status = "uninit"
    /\ bit_array = <<>>
    /\ m = 0
    /\ k = 0
    /\ n = 0
    /\ f = "none"
    /\ count = 0
    /\ hashes \in [Items -> DigestPairs]
    /\ ctor = [capacity |-> 0, fpr |-> "none"]
    /\ inserted = {}
    /\ calls = 0
    /\ ret = [op |-> "none", arg |-> "none", val |-> "none"]
    /\ hashers = NoHashers
    /\ digests = <<>>
    /\ ds = NoDataset
    /\ twin = NoTwin

(* Variant of new: the capacity assertion is missing. *)
new_without_assert(cap, fpr) ==
    /\ status = "uninit"
    /\ ctor' = [capacity |-> cap, fpr |-> fpr]
    /\ IF calculate_m_saturates(cap, fpr)
       THEN /\ status' = "alloc_failed"
            /\ ret' = [op |-> "new", arg |-> "none", val |-> "allocation failure"]
            /\ UNCHANGED filter
       ELSE LET bits == calculate_m(cap, fpr)
                hashCount == calculate_k(bits, cap)
            IN  /\ status' = "ok"
                /\ bit_array' = from_elem(bits, FALSE)
                /\ m' = bits
                /\ k' = hashCount
                /\ n' = cap
                /\ f' = fpr
                /\ count' = 0
                /\ ret' = [op |-> "new", arg |-> "none", val |-> "ok"]
    /\ UNCHANGED <<hashes, hasher_vars, ds, inserted, calls>>

(* BloomFilter::new(capacity, false_positive_rate).  The assertion fails  *)
(* for capacity 0; a bit array of usize::MAX bits cannot be allocated;    *)
(* otherwise the filter is built.                                         *)
new(cap, fpr) ==
    /\ status = "uninit"
    /\ ctor' = [capacity |-> cap, fpr |-> fpr]
    /\ IF ~(cap > 0)
       THEN /\ status' = "panicked"
            /\ ret' = [op |-> "new", arg |-> "none",
                       val |-> "Capacity must be greater than 0"]
            /\ UNCHANGED filter
       ELSE IF calculate_m_saturates(cap, fpr)
       THEN /\ status' = "alloc_failed"
            /\ ret' = [op |-> "new", arg |-> "none", val |-> "allocation failure"]
            /\ UNCHANGED filter
       ELSE LET bits == calculate_m(cap, fpr)
                hashCount == calculate_k(bits, cap)
            IN  /\ status' = "ok"
                /\ bit_array' = from_elem(bits, FALSE)
                /\ m' = bits
                /\ k' = hashCount
                /\ n' = cap
                /\ f' = fpr
                /\ count' = 0
                /\ ret' = [op |-> "new", arg |-> "none", val |-> "ok"]
    /\ UNCHANGED <<hashes, hasher_vars, ds, inserted, calls>>

(* Some bit_array.set(pos, true) or bit_array[pos] is out of bounds. *)
index_out_of_bounds(positions) ==
    \E j \in DOMAIN positions : positions[j] \notin DOMAIN bit_array

(* A panic inside insert or contains. *)
panic(op, item) ==
    /\ status' = "panicked"
    /\ ret' = [op |-> op, arg |-> item, val |-> "panic"]

(* Variant of set_bits: the bits of earlier items are cleared, only the   *)
(* positions of the item being inserted stay set.                         *)
set_bits_of_last_item(bits, positions) ==
    [p \in DOMAIN bits |-> \E j \in DOMAIN positions : positions[j] = p]

(* Variant of set_bits: the loop stops one position early. *)
set_bits_drops_last_position(bits, positions) ==
    [p \in DOMAIN bits |->
        bits[p] \/ \E j \in 1 .. Len(positions) - 1 : positions[j] = p]

(* Variant of set_bits: each position's bit is flipped instead of set. *)
set_bits_toggles(bits, positions) ==
    [p \in DOMAIN bits |->
        IF \E j \in DOMAIN positions : positions[j] = p THEN ~bits[p] ELSE bits[p]]

(* Variant of set_bits: an array that would become all set starts over     *)
(* with the bits of the last item alone.                                   *)
set_bits_restarts_when_full(bits, positions) ==
    IF \A p \in DOMAIN bits : bits[p] \/ \E j \in DOMAIN positions : positions[j] = p
    THEN [p \in DOMAIN bits |-> \E j \in DOMAIN positions : positions[j] = p]
    ELSE [p \in DOMAIN bits |-> bits[p] \/ \E j \in DOMAIN positions : positions[j] = p]

(* Variant of set_bits: a position found set makes the next index set too, *)
(* as in open addressing.                                                  *)
set_bits_probes_next(bits, positions) ==
    [p \in DOMAIN bits |->
        \/ bits[p]
        \/ \E j \in DOMAIN positions :
              \/ positions[j] = p
              \/ bits[positions[j]] /\ (positions[j] + 1) % m = p]

(* for pos in positions { self.bit_array.set(pos, true); } *)
set_bits(bits, positions) ==
    [p \in DOMAIN bits |-> bits[p] \/ \E j \in DOMAIN positions : positions[j] = p]

(* Variant of insert: count grows only for items not yet reported present. *)
insert_counts_new_items(item) ==
    /\ status = "ok"
    /\ count < MaxInserts
    /\ inserted' = inserted \cup {item}
    /\ calls' = calls + 1
    /\ \E positions \in {hash_positions(item)} :
          /\ bit_array' = set_bits(bit_array, positions)
          /\ count' = IF \A j \in DOMAIN positions : bit_array[positions[j]]
                      THEN count
                      ELSE count + 1
    /\ ret' = [op |-> "insert", arg |-> item, val |-> "unit"]
    /\ UNCHANGED <<status, m, k, n, f, hashes, hasher_vars, ds, ctor>>

(* Variant of insert: a filter that has counted n items counts further    *)
(* ones without setting their bits.                                        *)
insert_full_filter_keeps_bits(item) ==
    /\ status = "ok"
    /\ count < MaxInserts
    /\ inserted' = inserted \cup {item}
    /\ calls' = calls + 1
    /\ \E positions \in {hash_positions(item)} :
          bit_array' = IF count >= n THEN bit_array ELSE set_bits(bit_array, positions)
    /\ count' = count + 1
    /\ ret' = [op |-> "insert", arg |-> item, val |-> "unit"]
    /\ UNCHANGED <<status, m, k, n, f, hashes, hasher_vars, ds, ctor>>

(* ApproximateMembershipQuery::insert *)
insert(item) ==
    /\ status = "ok"
    /\ count < MaxInserts
    /\ inserted' = inserted \cup {item}
    /\ calls' = calls + 1
    /\ IF hash_positions_panics
       THEN panic("insert", item) /\ UNCHANGED filter
       ELSE \E positions \in {hash_positions(item)} :
              IF index_out_of_bounds(positions)
              THEN panic("insert", item) /\ UNCHANGED filter
              ELSE /\ bit_array' = set_bits(bit_array, positions)
                   /\ count' = count + 1
                   /\ ret' = [op |-> "insert", arg |-> item, val |-> "unit"]
                   /\ UNCHANGED <<status, m, k, n, f>>
    /\ UNCHANGED <<hashes, hasher_vars, ds, ctor>>

(* Variant of all_set: any() in place of all(). *)
any_set(bits, positions) == \E j \in DOMAIN positions : bits[positions[j]]

(* positions.all(|pos| self.bit_array[pos]) *)
all_set(bits, positions) == \A j \in DOMAIN positions : bits[positions[j]]

(* The value contains(item) returns in the current state. *)
contains_value(item) ==
    \E positions \in {hash_positions(item)} : all_set(bit_array, positions)

(* Variant of contains: a query also records the item's positions. *)
contains_marks_positions(item) ==
    /\ status = "ok"
    /\ \E positions \in {hash_positions(item)} :
          /\ ret' = [op |-> "contains", arg |-> item,
                     val |-> all_set(bit_array, positions)]
          /\ bit_array' = set_bits(bit_array, positions)
    /\ UNCHANGED <<status, m, k, n, f, count, hashes, twin, hasher_vars, ds, ctor, inserted, calls>>

(* ApproximateMembershipQuery::contains *)
contains(item) ==
    /\ status = "ok"
    /\ IF hash_positions_panics
       THEN panic("contains", item)
       ELSE \E positions \in {hash_positions(item)} :
              IF index_out_of_bounds(positions)
              THEN panic("contains", item)
              ELSE /\ ret' = [op |-> "contains", arg |-> item,
                              val |-> all_set(bit_array, positions)]
                   /\ UNCHANGED status
    /\ UNCHANGED <<filter, hashes, twin, hasher_vars, ds, ctor, inserted, calls>>

(* ApproximateMembershipQuery::false_positive_rate *)
false_positive_rate ==
    /\ status = "ok"
    /\ ret' = [op |-> "false_positive_rate", arg |-> "none", val |-> f]
    /\ UNCHANGED <<status, filter, hashes, twin, hasher_vars, ds, ctor, inserted, calls>>

(* Variant of capacity: the bit count is returned. *)
capacity_returns_m ==
    /\ status = "ok"
    /\ ret' = [op |-> "capacity", arg |-> "none", val |-> m]
    /\ UNCHANGED <<status, filter, hashes, twin, hasher_vars, ds, ctor, inserted, calls>>

(* ApproximateMembershipQuery::capacity *)
capacity ==
    /\ status = "ok"
    /\ ret' = [op |-> "capacity", arg |-> "none", val |-> n]
    /\ UNCHANGED <<status, filter, hashes, twin, hasher_vars, ds, ctor, inserted, calls>>

(* ApproximateMembershipQuery::len *)
len ==
    /\ status = "ok"
    /\ ret' = [op |-> "len", arg |-> "none", val |-> count]
    /\ UNCHANGED <<status, filter, hashes, twin, hasher_vars, ds, ctor, inserted, calls>>

(* ApproximateMembershipQuery::is_empty (provided method): len() == 0 *)
(* is_empty answered from the bit array instead of len(). *)
is_empty_from_bits ==
    /\ status = "ok"
    /\ ret' = [op |-> "is_empty", arg |-> "none",
               val |-> \A p \in DOMAIN bit_array : ~bit_array[p]]
    /\ UNCHANGED <<status, filter, hashes, twin, hasher_vars, ds, ctor, inserted, calls>>

is_empty ==
    /\ status = "ok"
    /\ ret' = [op |-> "is_empty", arg |-> "none", val |-> (count = 0)]
    /\ UNCHANGED <<status, filter, hashes, twin, hasher_vars, ds, ctor, inserted, calls>>

Next ==
    \/ \E input \in ConstructorInputs : new(input[1], input[2]) /\ UNCHANGED twin
    \/ \E item \in Items : insert(item) /\ UNCHANGED twin
    \/ \E item \in Items : contains(item)
    \/ false_positive_rate
    \/ capacity
    \/ len
    \/ is_empty

Spec == Init /\ [][Next]_vars

(***************************************************************************)
(* The sizing functions on their own: the unit tests of standard.rs call   *)
(* calculate_m and calculate_k directly, without a filter.                 *)
(***************************************************************************)
MaxSizingCapacity == 4
MaxSizingBits == 6
TestSizingCapacity == 1000
TestSizingBits == 9585

SizingCapacities == (1 .. MaxSizingCapacity) \cup {TestSizingCapacity}
SizingBits == (0 .. MaxSizingBits) \cup {TestSizingBits}

(* The digests play no part in the sizing. *)
FixedHashes == [item \in Items |-> [s \in Seeds |-> DigestOne]]

InitSizing ==
    /\ status = "uninit"
    /\ bit_array = <<>>
    /\ m = 0
    /\ k = 0
    /\ n = 0
    /\ f = "none"
    /\ count = 0
    /\ hashes = FixedHashes
    /\ ctor \in [capacity : SizingCapacities, fpr : ValidFpr, bits : SizingBits]
    /\ inserted = {}
    /\ calls = 0
    /\ ret = [op |-> "none", arg |-> "none", val |-> "none"]
    /\ hashers = NoHashers
    /\ digests = <<>>
    /\ ds = NoDataset
    /\ twin = NoTwin

(* let m = BloomFilter::<u64, AHasher>::calculate_m(n, f); *)
test_calculate_m ==
    /\ ret' = [op |-> "calculate_m", arg |-> <<ctor.capacity, ctor.fpr>>,
               val |-> calculate_m(ctor.capacity, ctor.fpr)]
    /\ UNCHANGED <<status, filter, hashes, twin, hasher_vars, ds, ctor, inserted, calls>>

(* let k = BloomFilter::<u64, AHasher>::calculate_k(m, n); *)
test_calculate_k ==
    /\ ret' = [op |-> "calculate_k", arg |-> <<ctor.bits, ctor.capacity>>,
               val |-> calculate_k(ctor.bits, ctor.capacity)]
    /\ UNCHANGED <<status, filter, hashes, twin, hasher_vars, ds, ctor, inserted, calls>>

NextSizing == test_calculate_m \/ test_calculate_k

SpecSizing == InitSizing /\ [][NextSizing]_vars

(***************************************************************************)
(* The hashers on their own, as the property tests of the hashing module   *)
(* use them: instances are built with with_seed and asked for digests.     *)
(*                                                                         *)
(* The digest functions are those of the ahash, xxhash-rust and murmur3    *)
(* crates.  Each is a function of the keys the instance holds and of the   *)
(* bytes; a digest is written as that application, <<kind, state, bytes>>, *)
(* so two digests are equal exactly when the same function is applied to   *)
(* the same keys and bytes.                                                *)
(***************************************************************************)
MaxHashCalls == 2

HasherKinds == {"AHasher", "XXHasher", "Murmur3Hasher"}

(* u64 seeds: 0, 1 and 2^32. *)
SeedValues == {Zero64, DigestOne, DigestHigh}

(* Byte sequences: the empty one and one of length 1. *)
ByteStrings == {<<>>, <<97>>}

(* AHasher::with_seed:      RandomState::with_seeds(seed, seed, seed, seed), *)
(*                          the four keys written one after the other       *)
(* XXHasher::with_seed:     Self { seed }                                   *)
(* Murmur3Hasher::with_seed: Self { seed: seed as u32 }                     *)
(* The seed field records the argument.                                     *)
with_seed(kind, seed) ==
    [kind |-> kind, seed |-> seed,
     state |-> CASE kind = "AHasher" -> seed \o seed \o seed \o seed
                 [] kind = "XXHasher" -> seed
                 [] kind = "Murmur3Hasher" -> AsU32(seed)]

(* hasher.hash(bytes) *)
hash(hasher, bytes) == <<hasher.kind, hasher.state, bytes>>

(* let hasher = constructor(seed); *)
constructor(slot, kind, seed) ==
    /\ hashers[slot].kind = "none"
    /\ hashers' = [hashers EXCEPT ![slot] = with_seed(kind, seed)]
    /\ UNCHANGED <<status, filter, hashes, twin, digests, ds, ctor, inserted, calls, ret>>

(* hash on an instance that feeds every call into one running state. *)
hasher_hash_streaming(slot, bytes) ==
    /\ hashers[slot].kind # "none"
    /\ Len(digests) < MaxHashCalls
    /\ digests' = Append(digests,
                    [slot |-> slot, kind |-> hashers[slot].kind,
                     seed |-> hashers[slot].seed, bytes |-> bytes,
                     digest |-> <<hash(hashers[slot], bytes), digests>>])
    /\ UNCHANGED <<status, filter, hashes, twin, hashers, ds, ctor, inserted, calls, ret>>

(* hasher.hash(&data) on a built instance *)
hasher_hash(slot, bytes) ==
    /\ hashers[slot].kind # "none"
    /\ Len(digests) < MaxHashCalls
    /\ digests' = Append(digests,
                    [slot |-> slot, kind |-> hashers[slot].kind,
                     seed |-> hashers[slot].seed, bytes |-> bytes,
                     digest |-> hash(hashers[slot], bytes)])
    /\ UNCHANGED <<status, filter, hashes, twin, hashers, ds, ctor, inserted, calls, ret>>

(* H::hash_with_seed(&data, seed) = Self::with_seed(seed).hash(bytes); the *)
(* temporary instance is given slot 0 in the history.                      *)
Hasher64_hash_with_seed(kind, bytes, seed) ==
    /\ Len(digests) < MaxHashCalls
    /\ digests' = Append(digests,
                    [slot |-> 0, kind |-> kind, seed |-> seed, bytes |-> bytes,
                     digest |-> hash(with_seed(kind, seed), bytes)])
    /\ UNCHANGED <<status, filter, hashes, twin, hashers, ds, ctor, inserted, calls, ret>>

InitHash ==
    /\ status = "uninit"
    /\ bit_array = <<>>
    /\ m = 0
    /\ k = 0
    /\ n = 0
    /\ f = "none"
    /\ count = 0
    /\ hashes = FixedHashes
    /\ ctor = [capacity |-> 0, fpr |-> "none"]
    /\ inserted = {}
    /\ calls = 0
    /\ ret = [op |-> "none", arg |-> "none", val |-> "none"]
    /\ hashers = NoHashers
    /\ digests = <<>>
    /\ ds = NoDataset
    /\ twin = NoTwin

NextHash ==
    \/ \E slot \in HasherSlots, kind \in HasherKinds, seed \in SeedValues :
            constructor(slot, kind, seed)
    \/ \E slot \in HasherSlots, bytes \in ByteStrings : hasher_hash(slot, bytes)
    \/ \E kind \in HasherKinds, bytes \in ByteStrings, seed \in SeedValues :
            Hasher64_hash_with_seed(kind, bytes, seed)

SpecHash == InitHash /\ [][NextHash]_vars

(***************************************************************************)
(* The dataset generators of the benchmarks.  StdRng::seed_from_u64(seed)  *)
(* is a stream of draws fixed by the seed; the streams here are runs of    *)
(* RngRun equal values over 0 .. RngModulus - 1, starting at a value and   *)
(* a phase given by the seed, with or without a step added at each draw.   *)
(* The loops that look for absent items run one iteration per step, since  *)
(* they need not end.                                                      *)
(***************************************************************************)
MaxDatasetN == 21
MaxSeed == 15
MaxCardinality == 4
MaxDraws == 96
RngModulus == 4
RngRun == 8

DatasetSizes == 0 .. MaxDatasetN
RngSeeds == 0 .. MaxSeed
Cardinalities == 0 .. MaxCardinality
Alphas == {"1.07", "-1.0"}

(* The draw number idx (from 0) of the stream of a seed. *)
RngValue(seed, idx) ==
    (seed + (((seed % RngRun) + idx) \div RngRun) + (idx * (seed \div RngRun)))
        % RngModulus

(* zipf.sample(&mut rng) as u64: a rank in 1 ..= cardinality *)
ZipfSample(cardinality, seed, idx) == 1 + (RngValue(seed, idx) % cardinality)

(* Zipf::new(cardinality as f64, alpha) is an Err *)
ZipfNewFails(cardinality, alpha) == cardinality < 1 \/ alpha # "1.07"

Range(seq) == {seq[j] : j \in DOMAIN seq}

(* iter().step_by(step) *)
step_by(seq, step) == [j \in 1 .. CeilDiv(Len(seq), step) |-> seq[(j - 1) * step + 1]]

(* .take(cnt) *)
take(seq, cnt) == IF cnt < Len(seq) THEN SubSeq(seq, 1, cnt) ELSE seq

(* queries_present without the take. *)
queries_present_step_by_only(inserted_items, num) == step_by(inserted_items, 10)

(* inserted.iter().step_by(10).copied().take(n / 10).collect() *)
queries_present(inserted_items, num) == take(step_by(inserted_items, 10), num \div 10)

(* if !inserted_set.contains(&item) { queries_absent.push(item); } *)
push_if_absent(d, item) ==
    IF item \in Range(d.inserted) THEN d.queries_absent ELSE Append(d.queries_absent, item)

(* Where Dataset::uniform stands once inserted and queries_present are     *)
(* built or an iteration of its loop has run.                              *)
uniform_pc(d) ==
    IF Len(d.queries_absent) < d.n \div 10 THEN "uniform_absent" ELSE "returned"

(* The same for Dataset::zipfian, in its first loop and in its second.     *)
zipfian_pc(d) ==
    IF Len(d.queries_absent) < d.n \div 10 /\ d.attempts < d.n * 2 THEN "zipfian_absent"
    ELSE IF Len(d.queries_absent) < d.n \div 10 THEN "zipfian_fill"
    ELSE "returned"

zipfian_fill_pc(d) ==
    IF Len(d.queries_absent) < d.n \div 10 THEN "zipfian_fill" ELSE "returned"

(* Dataset::uniform(n, seed), up to its loop *)
uniform(num, seed) ==
    /\ ds.pc = "idle"
    /\ \E d \in {[pc |-> "uniform_absent", kind |-> "uniform", n |-> num, seed |-> seed,
                    cardinality |-> 0, idx |-> num, attempts |-> 0,
                    inserted |-> [j \in 1 .. num |-> RngValue(seed, j - 1)],
                    queries_present |-> <<>>, queries_absent |-> <<>>]} :
          \E e \in {[d EXCEPT !.queries_present = queries_present(d.inserted, num)]} :
              ds' = [e EXCEPT !.pc = uniform_pc(e)]
    /\ UNCHANGED <<status, filter, hashes, twin, hasher_vars, ctor, inserted, calls, ret>>

(* One iteration of while queries_absent.len() < n / 10 in uniform *)
uniform_absent ==
    /\ ds.pc = "uniform_absent"
    /\ ds.idx < MaxDraws
    /\ \E d \in {[ds EXCEPT !.queries_absent = push_if_absent(ds, RngValue(ds.seed, ds.idx)),
                             !.idx = ds.idx + 1]} :
          ds' = [d EXCEPT !.pc = uniform_pc(d)]
    /\ UNCHANGED <<status, filter, hashes, twin, hasher_vars, ctor, inserted, calls, ret>>

(* Dataset::zipfian(n, cardinality, alpha, seed), up to its first loop *)
zipfian(num, cardinality, alpha, seed) ==
    /\ ds.pc = "idle"
    /\ IF ZipfNewFails(cardinality, alpha)
       THEN ds' = [pc |-> "panicked", kind |-> "zipfian", n |-> num, seed |-> seed,
                   cardinality |-> cardinality, idx |-> 0, attempts |-> 0,
                   inserted |-> <<>>, queries_present |-> <<>>, queries_absent |-> <<>>]
       ELSE \E d \in {[pc |-> "zipfian_absent", kind |-> "zipfian", n |-> num, seed |-> seed,
                        cardinality |-> cardinality, idx |-> num, attempts |-> 0,
                        inserted |-> [j \in 1 .. num |-> ZipfSample(cardinality, seed, j - 1)],
                        queries_present |-> <<>>, queries_absent |-> <<>>]} :
              \E e \in {[d EXCEPT !.queries_present = queries_present(d.inserted, num)]} :
                  ds' = [e EXCEPT !.pc = zipfian_pc(e)]
    /\ UNCHANGED <<status, filter, hashes, twin, hasher_vars, ctor, inserted, calls, ret>>

(* One iteration of the first loop of zipfian; the remainder panics when   *)
(* cardinality / 2 is 0.                                                   *)
zipfian_absent ==
    /\ ds.pc = "zipfian_absent"
    /\ ds.idx < MaxDraws
    /\ IF ds.cardinality \div 2 = 0
       THEN ds' = [ds EXCEPT !.pc = "panicked"]
       ELSE \E item \in {(ds.cardinality \div 2)
                            + (RngValue(ds.seed, ds.idx) % (ds.cardinality \div 2))} :
              \E d \in {[ds EXCEPT !.queries_absent = push_if_absent(ds, item),
                                    !.idx = ds.idx + 1,
                                    !.attempts = ds.attempts + 1]} :
                  ds' = [d EXCEPT !.pc = zipfian_pc(d)]
    /\ UNCHANGED <<status, filter, hashes, twin, hasher_vars, ctor, inserted, calls, ret>>

(* One iteration of the second loop of zipfian *)
zipfian_fill ==
    /\ ds.pc = "zipfian_fill"
    /\ ds.idx < MaxDraws
    /\ \E d \in {[ds EXCEPT !.queries_absent = push_if_absent(ds, RngValue(ds.seed, ds.idx)),
                             !.idx = ds.idx + 1]} :
          ds' = [d EXCEPT !.pc = zipfian_fill_pc(d)]
    /\ UNCHANGED <<status, filter, hashes, twin, hasher_vars, ctor, inserted, calls, ret>>

InitDataset == InitHash

NextDataset ==
    \/ \E num \in DatasetSizes, seed \in RngSeeds : uniform(num, seed)
    \/ uniform_absent
    \/ \E num \in DatasetSizes, cardinality \in Cardinalities, alpha \in Alphas,
           seed \in RngSeeds : zipfian(num, cardinality, alpha, seed)
    \/ zipfian_absent
    \/ zipfian_fill

SpecDataset == InitDataset /\ [][NextDataset]_vars

(***************************************************************************)
(* Two filters of one test, as test_sequential_vs_random_insertions builds *)
(* them: both from the same arguments, each with its own sequence of       *)
(* inserts.  The filter a call is made on is held in the filter variables, *)
(* the other one in twin.other; twin.order and twin.other_order are the    *)
(* items inserted into each, in call order.                                *)
(***************************************************************************)
MaxOrderInserts == 2

(* BloomFilter::new(1000, 0.01): the test builds its filters with this    *)
(* rate; the capacities are the small ones of the other constructor calls. *)
OrderInputs == Capacities \X {"0.01"}

InitOrder == Init

(* The filter the calls are made on, as a value. *)
this_filter ==
    [status |-> status, bit_array |-> bit_array, m |-> m, k |-> k, n |-> n, f |-> f,
     count |-> count, ctor |-> ctor, inserted |-> inserted, calls |-> calls, ret |-> ret]

(* BloomFilter::new for the filter the calls are made on; the second      *)
(* filter of the test is built from the arguments of the first.           *)
order_new(cap, fpr) ==
    /\ twin.other.status = "ok" =>
            cap = twin.other.ctor.capacity /\ fpr = twin.other.ctor.fpr
    /\ new(cap, fpr)
    /\ UNCHANGED twin

(* filter.insert(&x) in one of the two loops of the test. *)
order_insert(item) ==
    /\ Len(twin.order) < MaxOrderInserts
    /\ insert(item)
    /\ twin' = [twin EXCEPT !.order = Append(@, item)]

(* The next call is made on the other filter of the test. *)
switch ==
    /\ status = "ok"
    /\ status' = twin.other.status
    /\ bit_array' = twin.other.bit_array
    /\ m' = twin.other.m
    /\ k' = twin.other.k
    /\ n' = twin.other.n
    /\ f' = twin.other.f
    /\ count' = twin.other.count
    /\ ctor' = twin.other.ctor
    /\ inserted' = twin.other.inserted
    /\ calls' = twin.other.calls
    /\ ret' = twin.other.ret
    /\ twin' = [order |-> twin.other_order, other |-> this_filter,
                other_order |-> twin.order]
    /\ UNCHANGED <<hashes, hasher_vars, ds>>

NextOrder ==
    \/ \E input \in OrderInputs : order_new(input[1], input[2])
    \/ \E item \in Items : order_insert(item)
    \/ switch

SpecOrder == InitOrder /\ [][NextOrder]_vars

(***************************************************************************)
(* hash_positions in a filter of any size.  On a 64-bit target usize has   *)
(* 64 bits and m may exceed 2^32 (new(10^9, 0.01) asks for about 9.6 *     *)
(* 10^9 bits).  Here m is a usize of 8 bytes, least significant first, as  *)
(* the digests are, and a position is a usize too.  The bit array of such  *)
(* a filter is not represented: the specification follows the positions    *)
(* hash_positions hands to insert and contains, which index it.            *)
(***************************************************************************)
MaxHashCount == 3

UsizeTwoPow31 == <<0, 0, 0, 128, 0, 0, 0, 0>>         \* 0x0000000080000000
UsizeU32Max == <<255, 255, 255, 255, 0, 0, 0, 0>>     \* 0x00000000FFFFFFFF
UsizeTwoPow32 == <<0, 0, 0, 0, 1, 0, 0, 0>>           \* 0x0000000100000000
UsizeTwoPow62 == <<0, 0, 0, 0, 0, 0, 0, 64>>          \* 0x4000000000000000

(* The sizes m of the filters: small, around 2^31, around 2^32, large. *)
UsizeSizes ==
    { <<7, 0, 0, 0, 0, 0, 0, 0>>, UsizeTwoPow31, UsizeU32Max, UsizeTwoPow32,
      <<1, 0, 0, 0, 1, 0, 0, 0>>, UsizeTwoPow62 }

(* combined as usize: the u32 is zero-extended. *)
AsUsize(c) == c \o <<0, 0, 0, 0>>

(* a < b on usize *)
usize_less(a, b) ==
    \E j \in 1 .. 8 : a[j] < b[j] /\ \A i \in j + 1 .. 8 : a[i] = b[i]

RECURSIVE Borrow(_, _, _)
Borrow(a, b, j) ==
    IF j = 0 THEN 0 ELSE IF a[j] - b[j] - Borrow(a, b, j - 1) < 0 THEN 1 ELSE 0

(* a - b on usize, for a >= b *)
usize_sub(a, b) ==
    <<(a[1] - b[1] + 256) % 256,
      (a[2] - b[2] - Borrow(a, b, 1) + 256) % 256,
      (a[3] - b[3] - Borrow(a, b, 2) + 256) % 256,
      (a[4] - b[4] - Borrow(a, b, 3) + 256) % 256,
      (a[5] - b[5] - Borrow(a, b, 4) + 256) % 256,
      (a[6] - b[6] - Borrow(a, b, 5) + 256) % 256,
      (a[7] - b[7] - Borrow(a, b, 6) + 256) % 256,
      (a[8] - b[8] - Borrow(a, b, 7) + 256) % 256>>

(* 2 * r + bit on usize, for r < 2^63 *)
usize_shift_in(r, bit) ==
    <<(2 * r[1] + bit) % 256,
      (2 * r[2] + r[1] \div 128) % 256,
      (2 * r[3] + r[2] \div 128) % 256,
      (2 * r[4] + r[3] \div 128) % 256,
      (2 * r[5] + r[4] \div 128) % 256,
      (2 * r[6] + r[5] \div 128) % 256,
      (2 * r[7] + r[6] \div 128) % 256,
      (2 * r[8] + r[7] \div 128) % 256>>

(* Bit b of the usize c, bit 0 the least significant. *)
usize_bit(c, b) == (c[b \div 8 + 1] \div (2 ^ (b % 8))) % 2

(* (c >> b) % modulus on usize by long division, one bit of c at a time,   *)
(* for 0 < modulus < 2^63 and c a zero-extended u32, whose bits 32 and up  *)
(* are 0.                                                                  *)
RECURSIVE usize_rem_from(_, _, _)
usize_rem_from(c, modulus, b) ==
    IF b = 32
    THEN Zero64
    ELSE CHOOSE r \in
            { IF usize_less(shifted, modulus) THEN shifted
                                             ELSE usize_sub(shifted, modulus) :
                shifted \in { usize_shift_in(rest, usize_bit(c, b)) :
                    rest \in { usize_rem_from(c, modulus, b + 1) } } } : TRUE

(* c % modulus on usize *)
usize_rem(c, modulus) == usize_rem_from(c, modulus, 0)

(* hash_positions with m a usize: position(i) is                           *)
(*   (hash1.wrapping_add((i as u32).wrapping_mul(hash2)) as usize) % m     *)
hash_positions_usize(item) ==
    CHOOSE positions \in
        { [j \in 1 .. k |->
              CHOOSE pos \in
                  { usize_rem(AsUsize(combined), m) :
                      combined \in { wrapping_add(hash1, product) :
                          product \in { wrapping_mul(i, hash2) :
                              i \in { UsizeAsU32(j - 1) } } } } : TRUE] :
            hash1 \in { AsU32(hash_with_seed(item, 0)) },
            hash2 \in { AsU32(hash_with_seed(item, 1)) } } : TRUE

(* A filter of m bits and k hash functions, before any call on it. *)
InitPositions ==
    /\ status = "ok"
    /\ bit_array = <<>>
    /\ m \in UsizeSizes
    /\ k \in 1 .. MaxHashCount
    /\ n = 0
    /\ f = "none"
    /\ count = 0
    /\ hashes \in [Items -> DigestPairs]
    /\ ctor = [capacity |-> 0, fpr |-> "none"]
    /\ inserted = {}
    /\ calls = 0
    /\ ret = [op |-> "none", arg |-> "none", val |-> "none"]
    /\ hashers = NoHashers
    /\ digests = <<>>
    /\ ds = NoDataset
    /\ twin = NoTwin

(* self.hash_positions(item), as insert and contains call it: ret.val     *)
(* holds the positions the call hands back.                               *)
hash_positions_call(item) ==
    /\ status = "ok"
    /\ ret' = [op |-> "hash_positions", arg |-> item, val |-> hash_positions_usize(item)]
    /\ UNCHANGED <<status, filter, hashes, twin, hasher_vars, ds, ctor, inserted, calls>>

NextPositions == \E item \in Items : hash_positions_call(item)

SpecPositions == InitPositions /\ [][NextPositions]_vars

----------------------------------------------------------------------------
(* Properties. *)

Readers == {"contains", "capacity", "false_positive_rate", "len", "is_empty"}

(* C1: no false negatives.  In every state of a constructed filter,       *)
(* contains is true of every item that an earlier insert was called with, *)
(* and every contains call on such an item returned true; whatever the    *)
(* order, the duplicates and the number of inserts against n.             *)
NoFalseNegatives ==
    status = "ok" =>
        /\ \A x \in inserted : contains_value(x)
        /\ (ret.op = "contains" /\ ret.arg \in inserted) => ret.val = TRUE

(* A valid filter past its capacity, with a duplicate insert and two      *)
(* distinct items, answers true for an inserted item.                     *)
NoFalseNegativesWitness ==
    /\ status = "ok"
    /\ f \in ValidFpr
    /\ m > 1
    /\ count > n
    /\ calls > Cardinality(inserted)
    /\ Cardinality(inserted) > 1
    /\ ret.op = "contains"
    /\ ret.arg \in inserted
    /\ ret.val = TRUE

(* C2: len() is the number of insert calls made since construction: each  *)
(* insert call adds exactly 1, duplicates and inserts past n included.    *)
LenCountsInsertCalls ==
    status = "ok" =>
        /\ count = calls
        /\ ret.op = "len" => ret.val = calls

(* len() returned 3 after one item was inserted three times into a filter *)
(* of capacity below 3.                                                   *)
LenCountsInsertCallsWitness ==
    /\ status = "ok"
    /\ ret.op = "len"
    /\ ret.val = 3
    /\ Cardinality(inserted) = 1
    /\ n < 3

(* C3: capacity() returns the constructor's n and false_positive_rate()   *)
(* the constructor's f, in every state of a constructed filter.           *)
CapacityFprFidelity ==
    status = "ok" =>
        /\ n = ctor.capacity
        /\ f = ctor.fpr
        /\ ret.op = "capacity" => ret.val = ctor.capacity
        /\ ret.op = "false_positive_rate" => ret.val = ctor.fpr

(* capacity() was called after inserts had passed the capacity. *)
CapacityFprFidelityWitness ==
    /\ status = "ok"
    /\ ret.op = "capacity"
    /\ ret.val = 2
    /\ count > n
    /\ m # n

(* C4: new panics with "Capacity must be greater than 0" exactly when the *)
(* capacity is 0, for every f, and leaves no filter state behind.         *)
ZeroCapacityPanics ==
    status # "uninit" =>
        /\ ctor.capacity = 0 =>
              /\ status = "panicked"
              /\ ret = [op |-> "new", arg |-> "none",
                        val |-> "Capacity must be greater than 0"]
              /\ filter = <<<<>>, 0, 0, 0, "none", 0>>
        /\ ctor.capacity > 0 => ~(status = "panicked" /\ ret.op = "new")

(* new(0, NaN) panicked. *)
ZeroCapacityPanicsWitness ==
    /\ status = "panicked"
    /\ ctor.capacity = 0
    /\ ctor.fpr = "NaN"

(* C5: contains(x) returned true iff every position derived for x is set  *)
(* in the bit array.                                                      *)
ContainsIffAllPositionsSet ==
    (status = "ok" /\ ret.op = "contains") =>
        (ret.val <=> \A p \in hash_position_set(ret.arg) : bit_array[p])

(* contains returned false for an item with a set and a clear position. *)
ContainsIffAllPositionsSetWitness ==
    /\ status = "ok"
    /\ ret.op = "contains"
    /\ ret.val = FALSE
    /\ \E p \in hash_position_set(ret.arg) : bit_array[p]
    /\ \E p \in hash_position_set(ret.arg) : ~bit_array[p]

(* C6: a step that is a contains, capacity, false_positive_rate, len or   *)
(* is_empty call leaves bit_array, m, k, n, f and count unchanged.        *)
ReadersDoNotMutate ==
    [][ret'.op \in Readers => UNCHANGED filter]_vars

(* contains returned true for an item that was never inserted. *)
ReadersDoNotMutateWitness ==
    /\ status = "ok"
    /\ ret.op = "contains"
    /\ ret.arg \notin inserted
    /\ ret.val = TRUE
    /\ m > 0
    /\ \E p \in DOMAIN bit_array : ~bit_array[p]

(* C7: an insert(x) step sets the bits at x's positions, keeps every      *)
(* other bit, adds 1 to count and leaves m, k, n, f and the bit array's   *)
(* length m unchanged.                                                    *)
InsertFrame ==
    [][calls' # calls =>
          /\ \A positions \in {hash_position_set(ret'.arg)} :
                bit_array' = [p \in 0 .. m - 1 |-> bit_array[p] \/ p \in positions]
          /\ DOMAIN bit_array' = 0 .. m' - 1
          /\ count' = count + 1
          /\ UNCHANGED <<m, k, n, f>>]_vars

(* After an insert a bit outside the item's positions is still set and    *)
(* another is still clear.                                                *)
InsertFrameWitness ==
    /\ status = "ok"
    /\ ret.op = "insert"
    /\ \E p \in DOMAIN bit_array : bit_array[p] /\ p \notin hash_position_set(ret.arg)
    /\ \E p \in DOMAIN bit_array : ~bit_array[p]

(* C8: insert and contains never fail on a constructed filter: the only   *)
(* panic is the constructor's, the remainder never divides by 0, and      *)
(* every position of every item is an index of the bit array.             *)
InsertContainsNeverFail ==
    /\ status = "panicked" => ret.op = "new"
    /\ status = "ok" =>
          /\ DOMAIN bit_array = 0 .. m - 1
          /\ ~hash_positions_panics
          /\ \A x \in Items : \A p \in hash_position_set(x) : p \in 0 .. m - 1

(* An insert returned normally and set the last bit of the array. *)
InsertContainsNeverFailWitness ==
    /\ status = "ok"
    /\ ret.op = "insert"
    /\ ret.val = "unit"
    /\ m > 1
    /\ bit_array[m - 1]

(* C9: a filter constructed with n > 0 and 0 < f < 1 has m > 0 and        *)
(* k >= 1 in every state.                                                 *)
ValidSizing ==
    (status = "ok" /\ ctor.capacity > 0 /\ ctor.fpr \in ValidFpr) =>
        (m > 0 /\ k >= 1)

(* The smallest sizing, m = 1 and k = 1, after an insert. *)
ValidSizingWitness ==
    /\ status = "ok"
    /\ ctor.fpr = "0.99999"
    /\ ctor.capacity > 1
    /\ m = 1
    /\ k = 1
    /\ count > 0

(* C10: for n > 0 and f outside (0, 1), new fails or returns a filter     *)
(* with m > 0.                                                            *)
InvalidFprNeverZeroSize ==
    (status = "ok" /\ ctor.capacity > 0 /\ ctor.fpr \in InvalidFpr) => m > 0

(* C11: the hash-function count of a constructed filter is at least 1,    *)
(* for every (m, n) that new passes to calculate_k.                       *)
HashCountAtLeastOne ==
    status = "ok" => (k = calculate_k(m, n) /\ k >= 1)

(* C12: calculate_m(n, f) is the least m with m * (ln 2)^2 >= -n * ln f   *)
(* and calculate_k(m, n) the least k with k * n >= m * ln 2, that is the  *)
(* ceilings of the standard formulas; calculate_m(1000, 0.01) lies in     *)
(* 9500 .. 9600 and calculate_k(9585, 1000) is 7.                         *)
SizingFormulas ==
    /\ ret.op = "calculate_m" =>
          /\ ret.val * Ln2SqScaled >= -(ret.arg[1] * LnScaled(ret.arg[2]))
          /\ (ret.val - 1) * Ln2SqScaled < -(ret.arg[1] * LnScaled(ret.arg[2]))
          /\ ret.arg = <<1000, "0.01">> => ret.val \in 9500 .. 9600
    /\ ret.op = "calculate_k" =>
          /\ ret.val * ret.arg[2] * Scale >= ret.arg[1] * Ln2Scaled
          /\ ret.val = 0 \/ (ret.val - 1) * ret.arg[2] * Scale < ret.arg[1] * Ln2Scaled
          /\ ret.arg = <<9585, 1000>> => ret.val = 7

(* calculate_k(9585, 1000) returned 7. *)
SizingFormulasWitness ==
    /\ ret.op = "calculate_k"
    /\ ret.arg = <<9585, 1000>>
    /\ ret.val = 7

(* C13: the filter returned by new(n, f) for n > 0 has a bit array of     *)
(* exactly m bits, all clear, and count = 0, with capacity n; len() and   *)
(* capacity() called before any insert return 0 and n.                    *)
InitialState ==
    /\ (status = "ok" /\ ret.op = "new") =>
          /\ ctor.capacity > 0
          /\ m = calculate_m(ctor.capacity, ctor.fpr)
          /\ DOMAIN bit_array = 0 .. m - 1
          /\ \A p \in DOMAIN bit_array : ~bit_array[p]
          /\ count = 0
          /\ n = ctor.capacity
    /\ (status = "ok" /\ calls = 0 /\ ret.op = "len") => ret.val = 0
    /\ (status = "ok" /\ calls = 0 /\ ret.op = "capacity") => ret.val = ctor.capacity

(* new(2, 0.01) returned a filter of 20 bits. *)
InitialStateWitness ==
    /\ status = "ok"
    /\ ret.op = "new"
    /\ ctor = [capacity |-> 2, fpr |-> "0.01"]
    /\ m = 20
    /\ DOMAIN bit_array = 0 .. 19

(* C16: is_empty() returns true exactly when len() is 0: true before the  *)
(* first insert call and false after it.                                  *)
IsEmptyIffLenZero ==
    (status = "ok" /\ ret.op = "is_empty") =>
        /\ ret.val = (count = 0)
        /\ ret.val = (calls = 0)

(* is_empty() returned false after an insert. *)
IsEmptyIffLenZeroWitness ==
    /\ status = "ok"
    /\ ret.op = "is_empty"
    /\ ret.val = FALSE
    /\ calls > 0

(* C17: on the filter returned by new(100, 0.01), before any insert, the  *)
(* fraction of the items of every non-empty sample for which contains     *)
(* returns true is below 0.1: contains returns false for each of them.    *)
EmptyFilterLowFpr ==
    (status = "ok" /\ ctor = [capacity |-> TestCapacity, fpr |-> "0.01"] /\ calls = 0) =>
        /\ \A sample \in (SUBSET Items) \ {{}} :
              10 * Cardinality({x \in sample : contains_value(x)}) < Cardinality(sample)
        /\ ret.op = "contains" => ret.val = FALSE

(* contains returned false on the empty filter of 959 bits and 7 hashes.  *)
EmptyFilterLowFprWitness ==
    /\ status = "ok"
    /\ ctor = [capacity |-> TestCapacity, fpr |-> "0.01"]
    /\ calls = 0
    /\ m = 959
    /\ k = 7
    /\ ret.op = "contains"
    /\ ret.val = FALSE

(***************************************************************************)
(* The double hashing formula on the digests as they are returned, 64 bits *)
(* wide: the sum byte by byte with carry, the product i * h as i sums, the *)
(* remainder by Horner's rule.                                             *)
(***************************************************************************)

RECURSIVE Carry(_, _, _)
Carry(a, b, j) == IF j = 0 THEN 0 ELSE (a[j] + b[j] + Carry(a, b, j - 1)) \div 256

Add64(a, b) == [j \in 1 .. 8 |-> (a[j] + b[j] + Carry(a, b, j - 1)) % 256]

RECURSIVE Times64(_, _)
Times64(i, h) ==
    IF i = 0 THEN Zero64
    ELSE CHOOSE sum \in {Add64(h, rest) : rest \in {Times64(i - 1, h)}} : TRUE

RECURSIVE HornerMod(_, _, _)
HornerMod(c, j, modulus) ==
    IF j > Len(c) THEN 0 ELSE (HornerMod(c, j + 1, modulus) * 256 + c[j]) % modulus

(* (h1 + i * h2) mod 2^64 *)
Combined64(item, i) ==
    CHOOSE sum \in
        {Add64(hash_with_seed(item, 0), product) :
            product \in {Times64(i, hash_with_seed(item, 1))}} : TRUE

(* C20 as stated, h1 and h2 being the 64-bit digests and the sum and the  *)
(* product wrapping at their width: the positions insert and contains use *)
(* for an item are ((h1 + i * h2) mod 2^64) mod m, for i in 0 .. k - 1.   *)
DoubleHashing64 ==
    (status = "ok" /\ m > 0 /\ ret.op \in {"insert", "contains"}) =>
        \A positions \in
              {[j \in 1 .. k |->
                   CHOOSE pos \in {HornerMod(combined, 1, m) :
                       combined \in {Combined64(ret.arg, j - 1)}} : TRUE]} :
            hash_positions(ret.arg) = positions

(* C20, amended: the positions insert and contains use for an item are    *)
(* ((h1 + i * h2) mod 2^32) mod m for i in 0 .. k - 1, h1 and h2 being    *)
(* the 64-bit digests with seeds 0 and 1: the sum and the product wrap at *)
(* 32 bits.  insert leaves each of them set and contains answers whether  *)
(* all of them are set.                                                   *)
DoubleHashing32 ==
    (status = "ok" /\ m > 0 /\ ret.op \in {"insert", "contains"}) =>
        \A positions \in
              {[j \in 1 .. k |->
                   CHOOSE pos \in {HornerMod(SubSeq(combined, 1, 4), 1, m) :
                       combined \in {Combined64(ret.arg, j - 1)}} : TRUE]} :
            /\ hash_positions(ret.arg) = positions
            /\ ret.op = "insert" => \A j \in 1 .. k : bit_array[positions[j]]
            /\ ret.op = "contains" => (ret.val <=> \A j \in 1 .. k : bit_array[positions[j]])

(* An insert whose digests differ above bit 32 only, into a filter whose  *)
(* size does not divide 2^32: the 64-bit formula gives other positions.   *)
DoubleHashing32Witness ==
    /\ status = "ok"
    /\ ret.op = "insert"
    /\ m > 1
    /\ k > 1
    /\ hash_with_seed(ret.arg, 0) = DigestHigh
    /\ HornerMod(Combined64(ret.arg, 0), 1, m) # 0
    /\ hash_position_set(ret.arg) = {0}

SeedSensitivity ==
    \A i, j \in DOMAIN digests :
        (/\ digests[i].kind = digests[j].kind
         /\ digests[i].seed # digests[j].seed
         /\ digests[i].bytes = digests[j].bytes
         /\ digests[i].bytes # <<>>)
            => digests[i].digest # digests[j].digest

(* C18: whenever Dataset::uniform or Dataset::zipfian returns, inserted   *)
(* has n items, every element of queries_present is in inserted, no       *)
(* element of queries_absent is, and both have n / 10 items.              *)
DatasetSeparation ==
    ds.pc = "returned" =>
        /\ Len(ds.inserted) = ds.n
        /\ \A j \in DOMAIN ds.queries_present : ds.queries_present[j] \in Range(ds.inserted)
        /\ \A j \in DOMAIN ds.queries_absent : ds.queries_absent[j] \notin Range(ds.inserted)
        /\ Len(ds.queries_present) = ds.n \div 10
        /\ Len(ds.queries_absent) = ds.n \div 10

(* zipfian returned two present and two absent queries for an n that is   *)
(* not a multiple of 10, after a draw that was in inserted and the second *)
(* loop.                                                                  *)
DatasetSeparationWitness ==
    /\ ds.pc = "returned"
    /\ ds.kind = "zipfian"
    /\ ds.n = 21
    /\ Len(ds.queries_absent) = 2
    /\ ds.queries_present[1] # ds.queries_present[2]
    /\ ds.attempts = 2 * ds.n
    /\ ds.idx > ds.n + ds.attempts + 2

(* C21: an insert(x) right after an insert(x) leaves the bit array as the *)
(* first one left it, and with it the contains answer of every item,      *)
(* while count, which len() returns, grows by exactly 1.                  *)
InsertIdempotentOnBits ==
    [][(/\ status = "ok"
        /\ ret.op = "insert"
        /\ ret'.op = "insert"
        /\ ret'.arg = ret.arg
        /\ calls' # calls)
          => /\ status' = "ok"
             /\ bit_array' = bit_array
             /\ \A y \in Items : contains_value(y)' = contains_value(y)
             /\ count' = count + 1]_vars

(* One item was inserted twice into a filter that still has a clear bit.  *)
InsertIdempotentOnBitsWitness ==
    /\ status = "ok"
    /\ ret.op = "insert"
    /\ calls = 2
    /\ count = 2
    /\ inserted = {ret.arg}
    /\ \E p \in DOMAIN bit_array : bit_array[p]
    /\ \E p \in DOMAIN bit_array : ~bit_array[p]

(* C22: the k positions of every item are the same before and after every *)
(* insert, the one call that changes the bit array and count, and those   *)
(* of x are the same before and after every contains(x): they depend on   *)
(* the item, m and k only, not on the bit array, on count or on the calls *)
(* that hashed the item, so insert(x) and every later contains(x) use the *)
(* same positions.                                                        *)
PositionsStable ==
    [][(status = "ok" /\ status' = "ok")
          => /\ calls' # calls =>
                  \A x \in Items :
                      \A before \in {hash_positions(x)}, after \in {hash_positions(x)'} :
                          after = before
             /\ ret'.op = "contains" =>
                  \A x \in {ret'.arg} :
                      \A before \in {hash_positions(x)}, after \in {hash_positions(x)'} :
                          after = before]_vars

(* contains(x) answered on a filter whose bit array and count changed     *)
(* since x was inserted, x having two distinct positions.                 *)
PositionsStableWitness ==
    /\ status = "ok"
    /\ ret.op = "contains"
    /\ ret.arg \in inserted
    /\ calls > 1
    /\ Cardinality(inserted) > 1
    /\ Cardinality(hash_position_set(ret.arg)) > 1

(* C23: in every state of a constructed filter the set bits are exactly   *)
(* the positions of the items passed to insert so far, and a contains(y)  *)
(* call returned true iff every position of y is a position of one of     *)
(* those items.                                                           *)
BitsAreUnionOfPositions ==
    status = "ok" =>
        \A union \in {UNION {hash_position_set(x) : x \in inserted}} :
            /\ {p \in DOMAIN bit_array : bit_array[p]} = union
            /\ ret.op = "contains" =>
                  (ret.val <=> hash_position_set(ret.arg) \subseteq union)

(* contains returned true for an item that was never inserted: each of    *)
(* its positions is a position of an inserted item, and the filter is     *)
(* past its capacity with a bit still clear.                              *)
BitsAreUnionOfPositionsWitness ==
    /\ status = "ok"
    /\ ret.op = "contains"
    /\ ret.val = TRUE
    /\ ret.arg \notin inserted
    /\ inserted # {}
    /\ count > n
    /\ hash_position_set(ret.arg) # {}
    /\ hash_position_set(ret.arg) \subseteq UNION {hash_position_set(x) : x \in inserted}
    /\ \E p \in DOMAIN bit_array : ~bit_array[p]

(* C24: no call clears a set bit, so a contains answer that is true stays *)
(* true: every item whose positions are all set before an insert has its  *)
(* positions all set after it, and a contains(x) call returns true        *)
(* whenever the positions of x were all set before the call.              *)
PositiveAnswersPermanent ==
    [][(status = "ok" /\ status' = "ok")
          => /\ bit_array' # bit_array =>
                  \A p \in DOMAIN bit_array : bit_array[p] => bit_array'[p]
             /\ calls' # calls =>
                  \A x \in Items :
                      (\E before \in {hash_positions(x)} : all_set(bit_array, before))
                          => \E after \in {hash_positions(x)'} : all_set(bit_array', after)
             /\ ret'.op = "contains" =>
                  \A x \in {ret'.arg} :
                      (\E before \in {hash_positions(x)} : all_set(bit_array, before))
                          => ret'.val = TRUE]_vars

(* contains returned true after the filter took three inserts of two      *)
(* items, the last of them another item than the one asked for, and has   *)
(* bits set outside the positions of the item asked for.                  *)
PositiveAnswersPermanentWitness ==
    /\ status = "ok"
    /\ ret.op = "contains"
    /\ ret.val = TRUE
    /\ count >= 3
    /\ Cardinality(inserted) = 2
    /\ \E p \in DOMAIN bit_array : bit_array[p] /\ p \notin hash_position_set(ret.arg)
    /\ \E p \in DOMAIN bit_array : ~bit_array[p]

(* The multiset of a sequence of inserts: how often each item occurs. *)
occurrences(order) ==
    [x \in Items |-> Cardinality({i \in DOMAIN order : order[i] = x})]

(* C25: insertion order does not matter.  Two filters built from the same  *)
(* (n, f), with the same hasher, that received the same multiset of items  *)
(* in different orders have identical bit arrays, the same len() and the   *)
(* same contains answer for every item: turning from one to the other      *)
(* changes none of them.                                                   *)
OrderIndependent ==
    [][(/\ status = "ok"
        /\ status' = "ok"
        /\ twin'.order = twin.other_order
        /\ twin'.other_order = twin.order
        /\ twin.order # twin.other_order
        /\ occurrences(twin.order) = occurrences(twin.other_order))
          => /\ bit_array' = bit_array
             /\ m' = m
             /\ k' = k
             /\ count' = count
             /\ \A y \in Items : contains_value(y)' = contains_value(y)]_vars

OrderIndependentWitness ==
    /\ status = "ok"
    /\ twin.other.status = "ok"
    /\ Len(twin.order) = MaxOrderInserts
    /\ twin.order # twin.other_order
    /\ occurrences(twin.order) = occurrences(twin.other_order)
    /\ bit_array = twin.other.bit_array
    /\ count = twin.other.count
    /\ hash_position_set(twin.order[1]) # hash_position_set(twin.other_order[1])
    /\ \E p \in DOMAIN bit_array : ~bit_array[p]
    /\ \A y \in Items : contains_value(y)

(* (low32(h1) + i * low32(h2)) mod 2^32: the low halves of the digests,   *)
(* zero-extended, combined in 64 bits, and the low half of the sum.        *)
Low32(d) == SubSeq(d, 1, 4) \o <<0, 0, 0, 0>>

CombinedLow32(item, i) ==
    CHOOSE low \in
        { Low32(sum) :
            sum \in { Add64(Low32(hash_with_seed(item, 0)), product) :
                product \in { Times64(i, Low32(hash_with_seed(item, 1))) } } } : TRUE

(* C26: both digests are truncated to their low 32 bits before they are    *)
(* combined and the combination wraps modulo 2^32: every position          *)
(* hash_positions yields is ((low32(h1) + i * low32(h2)) mod 2^32) mod m,  *)
(* so it is below m and below 2^32, also in a filter of more than 2^32     *)
(* bits, where no bit at an index of 2^32 or more is set or read.          *)
PositionsBelowTwoPow32 ==
    ret.op = "hash_positions" =>
        /\ Len(ret.val) = k
        /\ \A j \in 1 .. k :
              /\ \A reference \in {usize_rem(CombinedLow32(ret.arg, j - 1), m)} :
                    ret.val[j] = reference
              /\ usize_less(ret.val[j], m)
              /\ usize_less(ret.val[j], UsizeTwoPow32)

(* A filter of 2^32 + 1 bits and an item with h2 = -1 modulo 2^32: the     *)
(* second sum is 2^32 and wraps to position 0, the third position is       *)
(* 2^32 - 1; bit 2^32 is not among them.                                   *)
PositionsBelowTwoPow32Witness ==
    /\ ret.op = "hash_positions"
    /\ usize_less(UsizeTwoPow32, m)
    /\ k = MaxHashCount
    /\ hash_with_seed(ret.arg, 0) = DigestOne
    /\ hash_with_seed(ret.arg, 1) = DigestMax
    /\ ret.val[1] = DigestOne
    /\ ret.val[2] = Zero64
    /\ ret.val[3] = UsizeU32Max

====
